---- MODULE Spec2Model ----
(***************************************************************************)
(* A model of the two scheduler programs of the repository:                *)
(*   scheduler.py        the polling loop   (variables named poll_...)     *)
(*   scheduler_watch.py  the streaming loop (variables named watch_...)    *)
(* running against one cluster API service, together with a second         *)
(* scheduler instance that binds pods through the same binding endpoint.   *)
(* Every remote call of the programs is one atomic step; the local         *)
(* control flow that follows a call (exception handlers, log line, loop    *)
(* advance) belongs to the same step.                                      *)
(*                                                                         *)
(* Spec is that system.  The other specifications run one program at a     *)
(* time: SpecSelect against clusters of every shape up to the bind,        *)
(* SpecPolling and SpecStreaming with the history of the bind outcomes,    *)
(* SpecEvents with deleted pods and misshapen events, SpecValueError with  *)
(* a client that raises ValueError, SpecSignal with the interrupt signal,  *)
(* SpecAlone without any other actor, and SpecLive and SpecStreamingFair   *)
(* with the scheduling of the loop stated as fairness.                     *)
(***************************************************************************)
EXTENDS Integers, Sequences, FiniteSets, TLC

\* ------------------------------------------------------------------ bounds
NumPods == 2
MaxNodes == 2
SelPods == 2
SelNodes == 2
MaxEvents == 2
AlonePods == 3

\* ------------------------------------------------------- program constants
DefaultInterval == 2
RestartDelay == 5

\* ------------------------------------------------------------------ values
\* Python's None, as the value of an optional string field.
None == "<None>"

scheduler_name == "my-scheduler"

AllNodeNames == <<"node-a", "node-b", "node-c", "node-d", "node-e">>

NodeNames == {AllNodeNames[i] : i \in 1..MaxNodes}

\* `not x` of Python for an optional string: None and "" are both falsy.
Falsy(x) == x = None \/ x = ""

\* status.conditions of a node, as the client returns them.  NoStatus is a
\* node whose status (or condition list) is missing.
NoStatus == <<>>

CondReady == <<[type |-> "Ready", status |-> "True"]>>

CondNotReady == <<[type |-> "Ready", status |-> "False"]>>

CondPressureReady ==
    <<[type |-> "MemoryPressure", status |-> "True"], [type |-> "Ready", status |-> "True"]>>

\* ------------------------------------------------------------- exceptions
\* Python exception classes the programs can meet, with their base classes.
Bases(cls) ==
    CASE cls = "ApiException" -> {"ApiException", "Exception", "BaseException"}
      [] cls = "MaxRetryError" -> {"MaxRetryError", "Exception", "BaseException"}
      [] cls = "ReadTimeoutError" -> {"ReadTimeoutError", "Exception", "BaseException"}
      [] cls = "RuntimeError" -> {"RuntimeError", "Exception", "BaseException"}
      [] cls = "ValueError" -> {"ValueError", "Exception", "BaseException"}
      [] cls = "AttributeError" -> {"AttributeError", "Exception", "BaseException"}
      [] cls = "Exception" -> {"Exception", "BaseException"}
      [] OTHER -> {"BaseException"}

IsInstance(e, cls) == cls \in Bases(e.cls)

Exc(cls, status) == [cls |-> cls, status |-> status]

NoExc == Exc("", 0)

\* A list call that fails: the API answers with an error status, or the
\* transport fails before any answer (connectivity).
ClientErrors == {Exc("ApiException", 503), Exc("MaxRetryError", 0)}

\* ---------------------------------------------------------------- state
VARIABLES
    nodes,          \* cluster: the node list, in the order list_node returns it
    pods,           \* cluster: the pods, a sequence indexed by pod name
    binds,          \* cluster: per pod, how many binds the cluster has committed
    poll_pc,        \* polling loop: position in main()
    all_pods,       \* polling loop: the snapshot of line 101 (until the next step)
    pending_pods,   \* polling loop: the batch of lines 104-109
    poll_i,         \* polling loop: index of the pod the for loop is at
    poll_ready,     \* polling loop: names of ready_nodes inside choose_node
    poll_pick,      \* polling loop: [pick, min_cnt] returned by choose_node
    poll_calls,     \* polling loop: remote calls made for the current pod
    poll_binds,     \* polling loop: per pod, bind requests sent this cycle
    poll_sleep,     \* polling loop: the argument of the time.sleep in progress, or 0
    poll_log,       \* polling loop: the line its last step printed, or NoLog
    poll_outcome,   \* history: per pod, what the polling loop's binds have come to
    stream,         \* the events of the open watch that are not yet consumed
    watch_pc,       \* streaming loop: position in main()
    watch_obj,      \* streaming loop: evt['object'] of the event being processed
    watch_ready,    \* streaming loop: names of ready_nodes inside choose_node
    watch_pick,     \* streaming loop: [pick, min_cnt] returned by choose_node
    watch_calls,    \* streaming loop: remote calls made for the current event
    watch_sleep,    \* streaming loop: the argument of the time.sleep in progress, or 0
    watch_log,      \* streaming loop: the line its last step printed, or NoLog
    watch_outcome   \* history: per pod, what the streaming loop's binds have come to

cluster_vars == <<nodes, pods, binds, stream>>

watch_vars ==
    <<watch_pc, watch_obj, watch_ready, watch_pick, watch_calls, watch_sleep, watch_log,
      watch_outcome>>

poll_vars ==
    <<poll_pc, all_pods, pending_pods, poll_i, poll_ready, poll_pick, poll_calls,
      poll_binds, poll_sleep, poll_log, poll_outcome>>

vars == <<cluster_vars, poll_vars, watch_vars>>

Pod(name, node_name, phase, sched) ==
    [name |-> name, node_name |-> node_name, phase |-> phase, scheduler_name |-> sched]

Node(name, conditions) == [name |-> name, conditions |-> conditions]

NoPick == [pick |-> None, min_cnt |-> 0]

NoPod == Pod(0, None, None, None)

\* An event of the watch: evt['type'], evt['object'], and the shape of the
\* object: "pod" for a complete pod, "none" for None, "no_spec" for an object
\* without an attribute spec, "spec_none" and "status_none" for a pod object
\* whose spec or status is None.
Event(type, object) == [type |-> type, object |-> object, shape |-> "pod"]

Misshapen(type, object, shape) == [type |-> type, object |-> object, shape |-> shape]

\* A line printed by a loop: what it says, the pod (or count) it names, and
\* the exception whose class or status it shows.
Log(msg, pod, e) == [msg |-> msg, pod |-> pod, exc |-> e]

NoLog == Log("", 0, NoExc)

\* The outcome of one bind as the loop reports it (the line printed and the
\* exception shown): Success, Conflict, PermanentError (a 4xx answer other
\* than 409) or TransientError (anything else).
BindOutcome(msg, e) ==
    CASE msg = "bound" -> "Success"
      [] msg = "conflict" -> "Conflict"
      [] msg = "api_error" /\ e.status >= 400 /\ e.status <= 499 -> "PermanentError"
      [] OTHER -> "TransientError"

\* The history of a pod after one more outcome: Success and Conflict are kept
\* as "terminal", a permanent error as "permanent"; both stay once recorded.
Recorded(old, outcome) ==
    IF old # "" THEN old
    ELSE CASE outcome \in {"Success", "Conflict"} -> "terminal"
           [] outcome = "PermanentError" -> "permanent"
           [] OTHER -> ""

\* ------------------------------------------------------ the pure functions
\* The filter without its test of the phase.
is_pending_any_phase(p, name) ==
    /\ Falsy(p.node_name)
    /\ p.scheduler_name = name

\* The filter of the polling loop, lines 104-109.
is_pending(p, name) ==
    /\ Falsy(p.node_name)
    /\ p.phase = "Pending"
    /\ p.scheduler_name = name

filter_pending(listing, name) == SelectSeq(listing, LAMBDA p : is_pending(p, name))

\* Readiness read off the first condition only.
is_ready_first_condition(n) ==
    /\ n.conditions # <<>>
    /\ n.conditions[1].type = "Ready"
    /\ n.conditions[1].status = "True"

\* A node counts as ready when its status has a condition Ready = "True".
is_ready(n) ==
    \E i \in 1..Len(n.conditions) :
        n.conditions[i].type = "Ready" /\ n.conditions[i].status = "True"

ready_nodes(ns) ==
    LET ready == SelectSeq(ns, is_ready)
    IN  IF ready = <<>> THEN ns ELSE ready

Names(ns) == [i \in 1..Len(ns) |-> ns[i].name]

\* The count restricted to the pods that are still Pending.
RECURSIVE cnt_pending_only(_, _)
cnt_pending_only(listing, name) ==
    IF listing = <<>> THEN 0
    ELSE (IF Head(listing).node_name = name /\ Head(listing).phase = "Pending" THEN 1 ELSE 0)
            + cnt_pending_only(Tail(listing), name)

\* sum(1 for p in pods if p.spec.node_name == name), a left-to-right fold.
RECURSIVE cnt(_, _)
cnt(listing, name) ==
    IF listing = <<>> THEN 0
    ELSE (IF Head(listing).node_name = name THEN 1 ELSE 0) + cnt(Tail(listing), name)

\* min_cnt started at 0, so that no count is smaller.
inf_zero(listing) == 0

\* math.inf: larger than any count over the listing.
inf(listing) == Len(listing) + 1

\* The comparison with <= in place of <.
less_or_equally_loaded(c, min_cnt) == c <= min_cnt

\* if cnt < min_cnt
less_loaded(c, min_cnt) == c < min_cnt

\* The loop of lines 78-82 from position i on, carrying [pick, min_cnt].
RECURSIVE pick_loop(_, _, _, _)
pick_loop(ready, listing, i, acc) ==
    IF i > Len(ready) THEN acc
    ELSE LET c == cnt(listing, ready[i])
         IN  pick_loop(ready, listing, i + 1,
                       IF less_loaded(c, acc.min_cnt)
                       THEN [pick |-> ready[i], min_cnt |-> c]
                       ELSE acc)

\* Lines 74-85: ready is the non-empty list of candidate names.
choose_node(ready, listing) ==
    pick_loop(ready, listing, 1, [pick |-> ready[1], min_cnt |-> inf(listing)])

\* ------------------------------------------------------------ the cluster
\* A pod that was deleted stays in `pods` under its name with this phase.
Deleted == "<Deleted>"

Exists(p) == p.phase # Deleted

\* What one list call for the pods returns: the API lists the pods that exist
\* in name order.
Listings == {SelectSeq(pods, Exists)}

\* The node lists the cluster of the system model can hold: the first k known
\* nodes in name order, all of them Ready (readiness is varied in the model of
\* the selection below).
NodeLists == {[i \in 1..k |-> Node(AllNodeNames[i], CondReady)] : k \in 0..MaxNodes}

\* What can go wrong with one bind request, beside the endpoint's own answer.
BindFaults == {"none", "unavailable", "forbidden", "unreachable", "lost"}

\* The client raising ValueError: on the answer of a request the cluster has
\* served ("undecodable", the deserialization error bind_pod of the streaming
\* loop expects), or on its own checks before anything is sent ("invalid").
ValueFaults == {"undecodable", "invalid"}

\* The binding subresource: it commits the assignment of an unassigned pod
\* and answers 201, and rejects a pod that already has a node with 409.
\* (A PATCH of spec.nodeName is no binding: it writes the field as given.)
endpoint_commits(req, ps) ==
    /\ Exists(ps[req.name])
    /\ (req.endpoint = "binding" => Falsy(ps[req.name].node_name))

endpoint_status(req, ps) ==
    IF ~Exists(ps[req.name]) THEN 404
    ELSE IF req.endpoint = "binding"
         THEN (IF Falsy(ps[req.name].node_name) THEN 201 ELSE 409)
         ELSE 200

\* The answer the client sees: [exc, status].
Response(req, fault) ==
    CASE fault = "none" -> [exc |-> NoExc, status |-> endpoint_status(req, pods)]
      [] fault = "lost" -> [exc |-> Exc("ReadTimeoutError", 0), status |-> 0]
      [] fault = "unreachable" -> [exc |-> Exc("MaxRetryError", 0), status |-> 0]
      [] fault = "unavailable" -> [exc |-> NoExc, status |-> 503]
      [] fault = "forbidden" -> [exc |-> NoExc, status |-> 403]
      [] fault = "undecodable" ->
            IF endpoint_status(req, pods) = 201
            THEN [exc |-> Exc("ValueError", 0), status |-> 201]
            ELSE [exc |-> NoExc, status |-> endpoint_status(req, pods)]
      [] fault = "invalid" -> [exc |-> Exc("ValueError", 0), status |-> 0]

Committed(req, fault) ==
    fault \in {"none", "lost", "undecodable"} /\ endpoint_commits(req, pods)

\* The watch of the streaming loop is open while the loop is inside the for
\* statement of line 88.
StreamIsOpen == watch_pc \in {"next", "list_node", "list_pod", "bind"}

\* The cluster's side of one bind request.
ClusterBind(req, fault) ==
    IF Committed(req, fault)
    THEN /\ pods' = [pods EXCEPT ![req.name].node_name = req.target]
         /\ binds' = [binds EXCEPT ![req.name] = @ + 1]
         /\ UNCHANGED nodes
    ELSE UNCHANGED <<nodes, pods, binds>>

\* The events of the watch after that request: an open watch is sent the
\* change of the pod.
StreamAfter(req, fault) ==
    IF Committed(req, fault) /\ StreamIsOpen
    THEN Append(stream, Event("MODIFIED", [pods[req.name] EXCEPT !.node_name = req.target]))
    ELSE stream

\* The REST client: a transport failure is raised as it is, an answer outside
\* 2xx is raised as ApiException(status), anything else is returned.
call_api(resp) ==
    IF resp.exc # NoExc THEN resp
    ELSE IF resp.status < 200 \/ resp.status > 299
         THEN [exc |-> Exc("ApiException", resp.status), status |-> resp.status]
         ELSE resp

\* A loop is inside its per-pod try.
PollPerPod == poll_pc \in {"list_node", "list_pod", "bind"}

WatchPerPod == watch_pc \in {"list_node", "list_pod", "bind"}

\* ------------------------------------------------------- the polling loop
\* The request of the version of bind_pod that patches spec.nodeName.
bind_request_patch(pod, node_name) ==
    [endpoint |-> "patch", name |-> pod.name, target |-> node_name]

\* The request bind_pod sends.
bind_request(pod, node_name) ==
    [endpoint |-> "binding", name |-> pod.name, target |-> node_name]

\* bind_pod after the call: the exception it leaves with, or NoExc.
bind_pod(result) ==
    IF result.exc # NoExc THEN result.exc
    ELSE IF result.status \notin {200, 201} THEN Exc("Exception", result.status)
         ELSE NoExc

\* The handlers with the conflict raised again instead of reported.
pod_except_conflict_raised(e) ==
    IF IsInstance(e, "ApiException")
    THEN (IF e.status = 409 THEN "propagate" ELSE "api_error")
    ELSE IF IsInstance(e, "Exception") THEN "error" ELSE "propagate"

\* The per-pod try with its first handler alone.
pod_except_api_only(e) ==
    IF IsInstance(e, "ApiException")
    THEN (IF e.status = 409 THEN "conflict" ELSE "api_error")
    ELSE "propagate"

\* The handlers of the per-pod try: the line printed, or "propagate".
pod_except(e) ==
    IF IsInstance(e, "ApiException")
    THEN (IF e.status = 409 THEN "conflict" ELSE "api_error")
    ELSE IF IsInstance(e, "Exception") THEN "error" ELSE "propagate"

\* An outer try that handles the API's exceptions only.
main_except_api_only(e) == IsInstance(e, "ApiException")

\* The handler of the outer try.
main_except(e) == IsInstance(e, "Exception")

\* The loop body is left for time.sleep(args.interval); the batch is dead
\* from here on and is reset.
PollToSleep ==
    /\ poll_pc' = "sleep"
    /\ poll_sleep' = DefaultInterval
    /\ poll_i' = 0
    /\ pending_pods' = <<>>
    /\ poll_ready' = <<>>
    /\ poll_pick' = NoPick

\* An exception reaches the outer try.
PollMainRaise(e) ==
    IF main_except(e)
    THEN /\ PollToSleep
         /\ poll_log' = Log("main_loop_error", 0, e)
    ELSE /\ poll_pc' = "crashed"
         /\ poll_log' = Log("traceback", 0, e)
         /\ UNCHANGED <<poll_sleep, poll_i, pending_pods, poll_ready, poll_pick>>

\* The loop with one inline retry: a bind that ends in an API error is sent
\* once more before the for loop advances.
PollRetryOnce(msg, e) ==
    /\ poll_log' = Log(msg, pending_pods[poll_i].name, e)
    /\ IF poll_pc = "bind" /\ msg = "api_error" /\ poll_binds[pending_pods[poll_i].name] = 0
       THEN /\ poll_pc' = "bind"
            /\ UNCHANGED <<poll_i, poll_ready, poll_pick, poll_sleep, pending_pods>>
       ELSE IF poll_i < Len(pending_pods)
            THEN /\ poll_pc' = "list_node"
                 /\ poll_i' = poll_i + 1
                 /\ poll_ready' = <<>>
                 /\ poll_pick' = NoPick
                 /\ UNCHANGED <<poll_sleep, pending_pods>>
            ELSE PollToSleep

\* The per-pod try is left with line `msg` printed: the for loop advances.
PollNextPod(msg, e) ==
    /\ poll_log' = Log(msg, pending_pods[poll_i].name, e)
    /\ IF poll_i < Len(pending_pods)
       THEN /\ poll_pc' = "list_node"
            /\ poll_i' = poll_i + 1
            /\ poll_ready' = <<>>
            /\ poll_pick' = NoPick
            /\ UNCHANGED <<poll_sleep, pending_pods>>
       ELSE PollToSleep

\* An exception is raised inside the per-pod try.
PollPodRaise(e) ==
    IF pod_except(e) # "propagate" THEN PollNextPod(pod_except(e), e) ELSE PollMainRaise(e)

\* Line 101 and the filter: one list call starts a cycle.
PollList ==
    /\ poll_pc = "list"
    /\ UNCHANGED watch_vars
    /\ UNCHANGED <<cluster_vars, poll_calls, poll_binds, poll_outcome>>
    /\ \/ /\ \E e \in ClientErrors : PollMainRaise(e)
          /\ all_pods' = <<>>
       \/ \E listing \in Listings :
            LET batch == filter_pending(listing, scheduler_name)
            IN  /\ all_pods' = listing
                /\ IF batch = <<>>
                   THEN PollToSleep /\ poll_log' = NoLog
                   ELSE /\ pending_pods' = batch
                        /\ poll_i' = 1
                        /\ poll_pc' = "list_node"
                        /\ poll_log' = Log("found", Len(batch), NoExc)
                        /\ UNCHANGED <<poll_sleep, poll_ready, poll_pick>>

\* choose_node, line 56-71: list the nodes and keep the candidates.
PollListNode ==
    /\ poll_pc = "list_node"
    /\ UNCHANGED watch_vars
    /\ poll_calls' = <<"list_node">>
    /\ all_pods' = <<>>
    /\ UNCHANGED <<cluster_vars, poll_binds, poll_outcome>>
    /\ \/ \E e \in ClientErrors : PollPodRaise(e)
       \/ IF nodes = <<>>
          THEN PollPodRaise(Exc("RuntimeError", 0))
          ELSE /\ poll_ready' = Names(ready_nodes(nodes))
               /\ poll_pc' = "list_pod"
               /\ poll_log' = NoLog
               /\ UNCHANGED <<poll_sleep, poll_i, pending_pods, poll_pick>>

\* The counts taken over the snapshot of the cycle: every pod of the batch
\* is counted as it was when the batch was made.
counted_pods_of_snapshot(listing, batch) ==
    [i \in DOMAIN listing |->
        IF \E j \in DOMAIN batch : batch[j].name = listing[i].name
        THEN batch[CHOOSE j \in DOMAIN batch : batch[j].name = listing[i].name]
        ELSE listing[i]]

\* Line 74: choose_node counts over the pods it has just listed itself, not
\* over what main holds.
counted_pods(listing, batch) == listing

\* choose_node, line 74-85: list the pods, count, pick.
PollListPod ==
    /\ poll_pc = "list_pod"
    /\ UNCHANGED watch_vars
    /\ poll_calls' = Append(poll_calls, "list_pod")
    /\ UNCHANGED <<cluster_vars, poll_binds, all_pods, poll_outcome>>
    /\ \/ \E e \in ClientErrors : PollPodRaise(e)
       \/ \E listing \in Listings :
            /\ poll_pick' = choose_node(poll_ready, counted_pods(listing, pending_pods))
            /\ poll_pc' = "bind"
            /\ poll_log' = Log("attempting", pending_pods[poll_i].name, NoExc)
            /\ UNCHANGED <<poll_sleep, poll_i, pending_pods, poll_ready>>

\* bind_pod and lines 119-126.  The history of outcomes is written when
\* `recording` is set and left alone otherwise.
PollBindStep(faults, recording) ==
    /\ poll_pc = "bind"
    /\ UNCHANGED watch_vars
    /\ poll_calls' = Append(poll_calls, "bind")
    /\ poll_binds' = [poll_binds EXCEPT ![pending_pods[poll_i].name] = @ + 1]
    /\ UNCHANGED all_pods
    /\ \E fault \in faults :
         LET req == bind_request(pending_pods[poll_i], poll_pick.pick)
             e == bind_pod(call_api(Response(req, fault)))
             msg == IF e = NoExc THEN "bound" ELSE pod_except(e)
         IN  /\ ClusterBind(req, fault)
             /\ stream' = StreamAfter(req, fault)
             /\ poll_outcome' =
                    IF recording
                    THEN [poll_outcome EXCEPT ![req.name] = Recorded(@, BindOutcome(msg, e))]
                    ELSE poll_outcome
             /\ IF e = NoExc THEN PollNextPod("bound", NoExc) ELSE PollPodRaise(e)

PollBind == PollBindStep(BindFaults, FALSE)

PollBindRecorded == PollBindStep(BindFaults, TRUE)

\* The same step with a client that can raise ValueError.
PollBindValueError == PollBindStep(BindFaults \cup ValueFaults, FALSE)

\* Line 131: the sleep is over and the while loop starts its next round.
PollSleep ==
    /\ poll_pc = "sleep"
    /\ UNCHANGED watch_vars
    /\ poll_pc' = "list"
    /\ poll_sleep' = 0
    /\ all_pods' = <<>>
    /\ poll_calls' = <<>>
    /\ poll_binds' = [p \in DOMAIN pods |-> 0]
    /\ poll_log' = NoLog
    /\ UNCHANGED <<cluster_vars, pending_pods, poll_i, poll_ready, poll_pick, poll_outcome>>

Poll == PollList \/ PollListNode \/ PollListPod \/ PollBind \/ PollSleep

\* ----------------------------------------------------- the streaming loop
\* Lines 96-101: the event passes the two `continue` statements.
watch_validates(evt) ==
    /\ evt.shape \notin {"none", "no_spec"}
    /\ evt.type \in {"ADDED", "MODIFIED"}

\* Lines 104-106 raise AttributeError: obj.spec is None, or obj.status is None
\* and the first operand of `and` did not end the test.
watch_filter_raises(evt) ==
    /\ watch_validates(evt)
    /\ \/ evt.shape = "spec_none"
       \/ evt.shape = "status_none" /\ Falsy(evt.object.node_name)

\* Lines 96-106: the event is handed to choose_node and bind_pod.
watch_accepts(evt) ==
    /\ watch_validates(evt)
    /\ evt.shape = "pod"
    /\ Falsy(evt.object.node_name)
    /\ evt.object.phase = "Pending"
    /\ evt.object.scheduler_name = scheduler_name

\* The request bind_pod of the streaming loop sends (create_namespaced_binding).
watch_bind_request(pod, node_name) ==
    [endpoint |-> "binding", name |-> pod.name, target |-> node_name]

\* bind_pod of the streaming loop after the call: a ValueError is swallowed,
\* any other exception leaves the function.
watch_bind_pod(result) ==
    IF result.exc # NoExc /\ ~IsInstance(result.exc, "ValueError") THEN result.exc ELSE NoExc

\* The per-event try with its first handler alone.
watch_pod_except_api_only(e) ==
    IF IsInstance(e, "ApiException")
    THEN (IF e.status = 409 THEN "conflict" ELSE "api_error")
    ELSE "propagate"

\* The handlers of the per-event try, lines 114-121.
watch_pod_except(e) ==
    IF IsInstance(e, "ApiException")
    THEN (IF e.status = 409 THEN "conflict" ELSE "api_error")
    ELSE IF IsInstance(e, "Exception") THEN "error" ELSE "propagate"

\* The handler of the outer try, line 123.
watch_main_except(e) == IsInstance(e, "Exception")

watch_ready_nodes(ns) == ready_nodes(ns)

watch_choose_node(ready, listing) == choose_node(ready, listing)

\* How an open watch can fail: the read times out (_request_timeout), or the
\* API ends it with an error status.
StreamErrors == {Exc("ReadTimeoutError", 0), Exc("ApiException", 410)}

\* An exception reaches the outer try: the watch is gone.
WatchMainRaise(e) ==
    /\ watch_obj' = NoPod
    /\ watch_ready' = <<>>
    /\ watch_pick' = NoPick
    /\ IF watch_main_except(e)
       THEN /\ watch_pc' = "sleep"
            /\ watch_sleep' = RestartDelay
            /\ watch_log' = Log("watch_stream_error", 0, e)
       ELSE /\ watch_pc' = "crashed"
            /\ watch_log' = Log("traceback", 0, e)
            /\ UNCHANGED watch_sleep

\* The per-event try is left with line `msg` printed: back to the for statement.
WatchNextEvent(msg, e) ==
    /\ watch_log' = Log(msg, watch_obj.name, e)
    /\ watch_pc' = "next"
    /\ watch_obj' = NoPod
    /\ watch_ready' = <<>>
    /\ watch_pick' = NoPick
    /\ UNCHANGED watch_sleep

\* An exception is raised inside the per-event try.
WatchPodRaise(e) ==
    IF watch_pod_except(e) # "propagate"
    THEN WatchNextEvent(watch_pod_except(e), e)
    ELSE WatchMainRaise(e)

\* The watch after a step of the per-event try that raised e (NoExc: nothing
\* raised): it is lost when e leaves the for statement.
WatchStream(e, events) ==
    IF e # NoExc /\ watch_pod_except(e) = "propagate" THEN <<>> ELSE events

\* Line 88, first half: w.stream(...) opens the watch; the cluster first sends
\* every existing pod as an ADDED event.
WatchOpen ==
    /\ watch_pc = "open"
    /\ watch_calls' = <<>>
    /\ UNCHANGED watch_outcome
    /\ UNCHANGED <<nodes, pods, binds, poll_vars>>
    /\ \/ /\ \E e \in ClientErrors : WatchMainRaise(e)
          /\ stream' = <<>>
       \/ \E listing \in Listings :
            /\ stream' = [i \in DOMAIN listing |-> Event("ADDED", listing[i])]
            /\ watch_pc' = "next"
            /\ watch_log' = NoLog
            /\ UNCHANGED <<watch_obj, watch_ready, watch_pick, watch_sleep>>

\* Line 88, the for statement takes the next event; lines 92-106.
WatchEvent ==
    /\ watch_pc = "next"
    /\ stream # <<>>
    /\ watch_calls' = <<>>
    /\ UNCHANGED <<nodes, pods, binds, poll_vars, watch_outcome>>
    /\ IF watch_filter_raises(Head(stream))
       THEN /\ WatchMainRaise(Exc("AttributeError", 0))
            /\ stream' = <<>>
       ELSE /\ stream' = Tail(stream)
            /\ watch_log' = NoLog
            /\ UNCHANGED <<watch_ready, watch_pick, watch_sleep>>
            /\ IF watch_accepts(Head(stream))
               THEN /\ watch_pc' = "list_node"
                    /\ watch_obj' = Head(stream).object
               ELSE UNCHANGED <<watch_pc, watch_obj>>

\* The watch ends without an exception (the server closes it): the for
\* statement is exhausted and the while loop calls w.stream again.
WatchEnd ==
    /\ watch_pc = "next"
    /\ stream' = <<>>
    /\ watch_pc' = "open"
    /\ watch_log' = NoLog
    /\ UNCHANGED <<nodes, pods, binds, poll_vars, watch_obj, watch_ready, watch_pick,
                   watch_calls, watch_sleep, watch_outcome>>

\* The watch ends with an exception raised inside the for statement.
WatchError ==
    /\ watch_pc = "next"
    /\ \E e \in StreamErrors : WatchMainRaise(e)
    /\ stream' = <<>>
    /\ UNCHANGED <<nodes, pods, binds, poll_vars, watch_calls, watch_outcome>>

WatchListNode ==
    /\ watch_pc = "list_node"
    /\ watch_calls' = <<"list_node">>
    /\ UNCHANGED <<nodes, pods, binds, poll_vars, watch_outcome>>
    /\ \/ \E e \in ClientErrors : WatchPodRaise(e) /\ stream' = WatchStream(e, stream)
       \/ IF nodes = <<>>
          THEN /\ WatchPodRaise(Exc("RuntimeError", 0))
               /\ stream' = WatchStream(Exc("RuntimeError", 0), stream)
          ELSE /\ watch_ready' = Names(watch_ready_nodes(nodes))
               /\ watch_pc' = "list_pod"
               /\ watch_log' = NoLog
               /\ UNCHANGED <<stream, watch_obj, watch_pick, watch_sleep>>

WatchListPod ==
    /\ watch_pc = "list_pod"
    /\ watch_calls' = Append(watch_calls, "list_pod")
    /\ UNCHANGED <<nodes, pods, binds, poll_vars, watch_outcome>>
    /\ \/ \E e \in ClientErrors : WatchPodRaise(e) /\ stream' = WatchStream(e, stream)
       \/ \E listing \in Listings :
            /\ watch_pick' = watch_choose_node(watch_ready, listing)
            /\ watch_pc' = "bind"
            /\ watch_log' = Log("attempting", watch_obj.name, NoExc)
            /\ UNCHANGED <<stream, watch_obj, watch_ready, watch_sleep>>

\* bind_pod and lines 112-121, with the faults the request can meet.
WatchBindStep(faults, recording) ==
    /\ watch_pc = "bind"
    /\ watch_calls' = Append(watch_calls, "bind")
    /\ UNCHANGED poll_vars
    /\ \E fault \in faults :
         LET req == watch_bind_request(watch_obj, watch_pick.pick)
             e == watch_bind_pod(call_api(Response(req, fault)))
             msg == IF e = NoExc THEN "bound" ELSE watch_pod_except(e)
         IN  /\ ClusterBind(req, fault)
             /\ watch_outcome' =
                    IF recording
                    THEN [watch_outcome EXCEPT ![req.name] = Recorded(@, BindOutcome(msg, e))]
                    ELSE watch_outcome
             /\ stream' = WatchStream(e, StreamAfter(req, fault))
             /\ IF e = NoExc THEN WatchNextEvent("bound", NoExc) ELSE WatchPodRaise(e)

WatchBind == WatchBindStep(BindFaults, FALSE)

WatchBindRecorded == WatchBindStep(BindFaults, TRUE)

\* The same step with a client that can raise ValueError.
WatchBindValueError == WatchBindStep(BindFaults \cup ValueFaults, FALSE)

\* Line 127: the sleep is over and the while loop calls w.stream again.
WatchSleep ==
    /\ watch_pc = "sleep"
    /\ watch_pc' = "open"
    /\ watch_sleep' = 0
    /\ watch_log' = NoLog
    /\ UNCHANGED <<cluster_vars, poll_vars, watch_obj, watch_ready, watch_pick, watch_calls,
                   watch_outcome>>

Watch ==
    WatchOpen \/ WatchEvent \/ WatchEnd \/ WatchError \/ WatchListNode \/ WatchListPod
        \/ WatchBind \/ WatchSleep

\* ------------------------------------------------- the rest of the world
\* A second scheduler instance binds an unassigned pod through the endpoint.
OtherBind ==
    \E p \in DOMAIN pods, n \in NodeNames :
        /\ Exists(pods[p])
        /\ Falsy(pods[p].node_name)
        /\ ClusterBind([endpoint |-> "binding", name |-> p, target |-> n], "none")
        /\ stream' = StreamAfter([endpoint |-> "binding", name |-> p, target |-> n], "none")
        /\ UNCHANGED <<poll_vars, watch_vars>>

\* Nodes join, leave, or change readiness.
NodesChange ==
    /\ nodes' \in NodeLists \ {nodes}
    /\ UNCHANGED <<pods, binds, stream, poll_vars, watch_vars>>

\* A pod is changed in a way that leaves its node, phase and scheduler as
\* they are (a label, a condition): an open watch is sent the pod as it is.
\* The watch holds at most MaxEvents events that are not yet consumed.
PodTouch ==
    /\ StreamIsOpen
    /\ Len(stream) < MaxEvents
    /\ \E p \in DOMAIN pods :
          /\ Exists(pods[p])
          /\ stream' = Append(stream, Event("MODIFIED", pods[p]))
    /\ UNCHANGED <<nodes, pods, binds, poll_vars, watch_vars>>

\* A pod is deleted: an open watch is sent its last state as a DELETED event.
PodDelete ==
    /\ Len(stream) < MaxEvents
    /\ \E p \in DOMAIN pods :
          /\ Exists(pods[p])
          /\ pods' = [pods EXCEPT ![p].phase = Deleted]
          /\ stream' = IF StreamIsOpen THEN Append(stream, Event("DELETED", pods[p])) ELSE stream
    /\ UNCHANGED <<nodes, binds, poll_vars, watch_vars>>

\* The objects of events that are no complete pod.
MisshapenObjects ==
    { [shape |-> "none", object |-> NoPod],
      [shape |-> "no_spec", object |-> NoPod],
      [shape |-> "spec_none", object |-> NoPod],
      [shape |-> "status_none", object |-> Pod(0, None, None, scheduler_name)],
      [shape |-> "status_none", object |-> Pod(0, AllNodeNames[1], None, scheduler_name)] }

MisshapenTypes == {"ADDED", "DELETED"}

\* The watch delivers an event whose object is no complete pod.
MisshapenEvent ==
    /\ StreamIsOpen
    /\ Len(stream) < MaxEvents
    /\ \E type \in MisshapenTypes, o \in MisshapenObjects :
          stream' = Append(stream, Misshapen(type, o.object, o.shape))
    /\ UNCHANGED <<nodes, pods, binds, poll_vars, watch_vars>>

\* ------------------------------------------------------ the system model
PodKinds(i) ==
    { Pod(i, None, "Pending", scheduler_name),
      Pod(i, None, "Pending", "default-scheduler"),
      Pod(i, None, "Failed", scheduler_name),
      Pod(i, AllNodeNames[1], "Running", scheduler_name) }

\* The state of a program at its first loop iteration (started = TRUE), or of a
\* program that is not running.
PollInit(started) ==
    /\ poll_pc = IF started THEN "list" ELSE "off"
    /\ all_pods = <<>>
    /\ pending_pods = <<>>
    /\ poll_i = 0
    /\ poll_ready = <<>>
    /\ poll_pick = NoPick
    /\ poll_calls = <<>>
    /\ poll_binds = [p \in DOMAIN pods |-> 0]
    /\ poll_sleep = 0
    /\ poll_log = NoLog
    /\ poll_outcome = [p \in DOMAIN pods |-> ""]

WatchInit(started) ==
    /\ stream = <<>>
    /\ watch_pc = IF started THEN "open" ELSE "off"
    /\ watch_obj = NoPod
    /\ watch_ready = <<>>
    /\ watch_pick = NoPick
    /\ watch_calls = <<>>
    /\ watch_sleep = 0
    /\ watch_log = NoLog
    /\ watch_outcome = [p \in DOMAIN pods |-> ""]

Init ==
    /\ nodes \in NodeLists
    /\ pods \in {ps \in [1..NumPods -> UNION {PodKinds(i) : i \in 1..NumPods}] :
                    \A i \in 1..NumPods : ps[i] \in PodKinds(i)}
    /\ binds = [p \in 1..NumPods |-> 0]
    /\ PollInit(TRUE)
    /\ WatchInit(TRUE)

Next == Poll \/ Watch \/ OtherBind \/ NodesChange

Spec == Init /\ [][Next]_vars

\* ------------------------------------------ the streaming program alone
\* scheduler_watch.py alone: the polling program is not running.
InitStreaming ==
    /\ nodes \in NodeLists
    /\ pods \in {ps \in [1..NumPods -> UNION {PodKinds(i) : i \in 1..NumPods}] :
                    \A i \in 1..NumPods : ps[i] \in PodKinds(i)}
    /\ binds = [p \in 1..NumPods |-> 0]
    /\ PollInit(FALSE)
    /\ WatchInit(TRUE)

\* The events of the watch: pods are deleted, and the watch can deliver
\* events whose object is no complete pod.
NextEvents == Watch \/ PodDelete \/ MisshapenEvent

SpecEvents == InitStreaming /\ [][NextEvents]_vars

\* The history of the outcomes: the loop with its outcomes recorded, a second
\* scheduler, and pods that are touched while the watch is open.
WatchRecorded ==
    WatchOpen \/ WatchEvent \/ WatchEnd \/ WatchError \/ WatchListNode \/ WatchListPod
        \/ WatchBindRecorded \/ WatchSleep

NextStreaming == WatchRecorded \/ OtherBind \/ PodTouch

SpecStreaming == InitStreaming /\ [][NextStreaming]_vars

\* The read of an open watch that delivers nothing times out
\* (_request_timeout=60).
WatchIdle == stream = <<>> /\ WatchError

\* w.stream(...) returns an open watch.
WatchOpens == WatchOpen /\ watch_pc' = "next"

\* The program runs on: each of its steps is taken when it stays possible; a
\* watch without events does not stay open for ever; the cluster does not
\* refuse every watch, and does not break every watch before the loop has
\* taken an event from it.
SpecStreamingFair ==
    /\ SpecStreaming
    /\ SF_vars(WatchOpens)
    /\ SF_vars(WatchEvent)
    /\ WF_vars(WatchListNode)
    /\ WF_vars(WatchListPod)
    /\ WF_vars(WatchBindRecorded)
    /\ WF_vars(WatchSleep)
    /\ WF_vars(WatchIdle)

\* -------------------------------------------- the polling program alone
\* scheduler.py alone, with the history of its outcomes, a second scheduler,
\* and a cluster whose nodes change and whose pods are deleted.
InitPolling ==
    /\ nodes \in NodeLists
    /\ pods \in {ps \in [1..NumPods -> UNION {PodKinds(i) : i \in 1..NumPods}] :
                    \A i \in 1..NumPods : ps[i] \in PodKinds(i)}
    /\ binds = [p \in 1..NumPods |-> 0]
    /\ PollInit(TRUE)
    /\ WatchInit(FALSE)

PollRecorded == PollList \/ PollListNode \/ PollListPod \/ PollBindRecorded \/ PollSleep

NextPolling == PollRecorded \/ OtherBind \/ NodesChange \/ PodDelete

SpecPolling == InitPolling /\ [][NextPolling]_vars

\* --------------------------------------------------- the shutdown signal
\* The programs install no signal handler: SIGINT is raised by Python as
\* KeyboardInterrupt at the point the main thread has reached.
Interrupt == Exc("KeyboardInterrupt", 0)

PollInterrupt ==
    /\ poll_pc \in {"list", "list_node", "list_pod", "bind", "sleep"}
    /\ IF PollPerPod THEN PollPodRaise(Interrupt) ELSE PollMainRaise(Interrupt)
    /\ UNCHANGED <<cluster_vars, watch_vars, all_pods, poll_calls, poll_binds, poll_outcome>>

WatchInterrupt ==
    /\ watch_pc \in {"open", "next", "list_node", "list_pod", "bind", "sleep"}
    /\ IF WatchPerPod THEN WatchPodRaise(Interrupt) ELSE WatchMainRaise(Interrupt)
    /\ stream' = <<>>
    /\ UNCHANGED <<nodes, pods, binds, poll_vars, watch_calls, watch_outcome>>

\* One of the two programs runs.
InitEither ==
    /\ nodes \in NodeLists
    /\ pods \in {ps \in [1..NumPods -> UNION {PodKinds(i) : i \in 1..NumPods}] :
                    \A i \in 1..NumPods : ps[i] \in PodKinds(i)}
    /\ binds = [p \in 1..NumPods |-> 0]
    /\ \E polling \in BOOLEAN : PollInit(polling) /\ WatchInit(~polling)

\* The running program can be sent the signal at any point.
NextSignal == Poll \/ Watch \/ PollInterrupt \/ WatchInterrupt

SpecSignal == InitEither /\ [][NextSignal]_vars

\* ------------------------------------------- the client raising ValueError
\* One of the two programs with a client whose bind call can raise ValueError,
\* and a second scheduler.
NextValueError ==
    \/ PollList \/ PollListNode \/ PollListPod \/ PollBindValueError \/ PollSleep
    \/ WatchOpen \/ WatchEvent \/ WatchEnd \/ WatchError \/ WatchListNode \/ WatchListPod
    \/ WatchBindValueError \/ WatchSleep
    \/ OtherBind

SpecValueError == InitEither /\ [][NextValueError]_vars

\* ---------------------------------------- the polling program running on
\* scheduler.py alone with a second scheduler, in a cluster that always has a
\* node.
InitLive == InitPolling /\ nodes # <<>>

NodesStay == NodesChange /\ nodes' # <<>>

NextLive == Poll \/ OtherBind \/ NodesStay

\* The calls of the loop that are answered without a fault.
PollListOk == PollList /\ poll_log'.msg # "main_loop_error"

PollListNodeOk == PollListNode /\ poll_pc' = "list_pod"

PollListPodOk == PollListPod /\ poll_pc' = "bind"

PollBindOk == PollBind /\ poll_log'.msg \in {"bound", "conflict"}

\* The program runs on (it is single-threaded and its sleep ends), and none
\* of its four requests fails for ever.
SpecLive ==
    /\ InitLive
    /\ [][NextLive]_vars
    /\ WF_vars(Poll)
    /\ SF_vars(PollListOk)
    /\ SF_vars(PollListNodeOk)
    /\ SF_vars(PollListPodOk)
    /\ SF_vars(PollBindOk)

\* --------------------------------------------- the model of the selection
\* One program alone, no other actor, and a cluster drawn from a wider set:
\* nodes in any order with any of the status shapes, pods of every phase and
\* scheduler on any node.  The programs run from their first list call up to
\* the point where bind_pod is about to be called.
SelNames == {AllNodeNames[i] : i \in 1..SelNodes}

SelConds == {CondReady, CondNotReady, CondPressureReady, NoStatus}

SelOrders == UNION {[1..k -> SelNames] : k \in 0..SelNodes}

SelNodeLists ==
    UNION { {[i \in DOMAIN o |-> Node(o[i], c[i])] : c \in [DOMAIN o -> SelConds]} :
            o \in {o \in SelOrders : \A i, j \in DOMAIN o : i # j => o[i] # o[j]} }

SelPodKinds(i) ==
    {Pod(i, None, "Pending", "default-scheduler"),
     Pod(i, AllNodeNames[1], "Succeeded", "default-scheduler")}
        \cup {Pod(i, n, "Pending", scheduler_name) : n \in SelNames}

\* The first k pods, of any kind.
RECURSIVE SelPodPrefixes(_)
SelPodPrefixes(k) ==
    IF k = 0 THEN {<<>>}
    ELSE {Append(ps, p) : ps \in SelPodPrefixes(k - 1), p \in SelPodKinds(k)}

\* SelPods pods of any kind, in any order, and the one pod to schedule.
SelPodLists ==
    {Append(ps, Pod(SelPods + 1, None, "Pending", scheduler_name)) :
        ps \in SelPodPrefixes(SelPods)}

InitSelect ==
    /\ nodes \in SelNodeLists
    /\ pods \in SelPodLists
    /\ binds = [p \in DOMAIN pods |-> 0]
    /\ \E polling \in BOOLEAN : PollInit(polling) /\ WatchInit(~polling)

NextSelect ==
    \/ PollList \/ PollListNode \/ PollListPod
    \/ WatchOpen \/ WatchEvent \/ WatchListNode \/ WatchListPod

SpecSelect == InitSelect /\ [][NextSelect]_vars

\* ------------------------------------------------ the only actor
\* One of the two programs as the only actor that assigns pods: no second
\* scheduler, a fixed node list of any order and readiness, and pods that are
\* eligible or already run on a node.
AlonePodKinds(i) ==
    {Pod(i, None, "Pending", scheduler_name)}
        \cup {Pod(i, n, "Running", scheduler_name) : n \in SelNames}

InitAlone ==
    /\ nodes \in SelNodeLists
    /\ pods \in {ps \in [1..AlonePods -> UNION {AlonePodKinds(i) : i \in 1..AlonePods}] :
                    \A i \in 1..AlonePods : ps[i] \in AlonePodKinds(i)}
    /\ binds = [p \in DOMAIN pods |-> 0]
    /\ \E polling \in BOOLEAN : PollInit(polling) /\ WatchInit(~polling)

NextAlone == Poll \/ Watch

SpecAlone == InitAlone /\ [][NextAlone]_vars

\* ------------------------------------------------------------- the claims
\* The pods assigned to node n in the cluster, whatever their phase, their
\* scheduler or their place in a listing.
Load(n) == Cardinality({p \in DOMAIN pods : pods[p].node_name = n})

NodeIsReady(n) ==
    \E c \in {n.conditions[i] : i \in DOMAIN n.conditions} :
        c.type = "Ready" /\ c.status = "True"

Range(f) == {f[i] : i \in DOMAIN f}

\* The place of node `name` in the node list.
Pos(name) == CHOOSE i \in DOMAIN nodes : nodes[i].name = name

\* The three conditions of the admission filter on one observed pod.
Admitted(p) ==
    /\ p.node_name \in {None, ""}
    /\ p.phase = "Pending"
    /\ p.scheduler_name = "my-scheduler"

\* C1: every pod receives at most one successful bind, and a pod whose node
\* is set never has that node changed, whatever the two loops, the second
\* scheduler and the cluster do.
C1_AtMostOneBind ==
    [][\A p \in DOMAIN pods :
          /\ binds'[p] <= 1
          /\ (pods[p].node_name \notin {None, ""} =>
                 /\ pods'[p].node_name = pods[p].node_name
                 /\ binds'[p] = binds[p])]_vars

\* A pod was bound once, and this scheduler has since been refused a bind of it.
C1_Witness ==
    /\ poll_log.msg = "conflict"
    /\ binds[poll_log.pod] = 1
    /\ watch_log.msg = "bound"

\* C2: in both loops an observed pod is handed to node selection and bind
\* exactly when its node is unset, its phase is Pending and its scheduler name
\* is the configured one: the batch of a polling cycle is the sub-list of the
\* snapshot with these three properties, an event is taken up exactly when its
\* payload has them, and no other pod is ever in processing.
C2_BatchIsAdmitted ==
    /\ all_pods # <<>> =>
          /\ \A i \in DOMAIN all_pods :
                Admitted(all_pods[i]) <=> all_pods[i] \in Range(pending_pods)
          /\ Len(pending_pods) = Cardinality({i \in DOMAIN all_pods : Admitted(all_pods[i])})
    /\ \A i \in DOMAIN pending_pods : Admitted(pending_pods[i])
    /\ WatchPerPod => Admitted(watch_obj)

C2_EventIsAdmitted ==
    (/\ watch_pc = "next"
     /\ watch_pc' \in {"next", "list_node"}
     /\ stream # <<>>
     /\ stream' = Tail(stream))
        => (watch_pc' = "list_node" <=> Admitted(Head(stream).object))

C2_Admission == []C2_BatchIsAdmitted /\ [][C2_EventIsAdmitted]_vars

\* A snapshot with an admitted pod and with an unassigned pod of this scheduler
\* that is not Pending; the batch holds the first alone.
C2_Witness ==
    /\ poll_pc = "list_node"
    /\ Len(pending_pods) = 1
    /\ \E i \in DOMAIN all_pods :
          /\ all_pods[i].phase = "Failed"
          /\ all_pods[i].node_name = None
          /\ all_pods[i].scheduler_name = scheduler_name

\* C3: choose_node returns a candidate of minimal load, and among the
\* candidates of minimal load the one that comes first in the node list; so
\* the pick is a function of the node list and the pod snapshot.
MinimalAndFirst(ready, pick) ==
    /\ pick \in Range(ready)
    /\ \A c \in Range(ready) :
          /\ Load(c) >= Load(pick)
          /\ (Load(c) = Load(pick) => Pos(pick) <= Pos(c))

C3_LeastLoadedFirst ==
    /\ poll_pc = "bind" => MinimalAndFirst(poll_ready, poll_pick.pick)
    /\ watch_pc = "bind" => MinimalAndFirst(watch_ready, watch_pick.pick)

\* Two candidates share the minimal load and the first of them is picked.
C3_Witness ==
    /\ poll_pc = "bind"
    /\ Len(poll_ready) = 2
    /\ Load(poll_ready[1]) = Load(poll_ready[2])
    /\ Load(poll_ready[1]) > 0
    /\ poll_pick.pick = nodes[1].name

\* C4: when some node is Ready, the candidates, and so the pick, are Ready
\* nodes only; when the node list is not empty and no node is Ready, the
\* candidates are all the nodes and choose_node does not fail for lack of nodes.
AnyReady == \E i \in DOMAIN nodes : NodeIsReady(nodes[i])

Candidates(ready) ==
    /\ AnyReady => Range(ready) = {nodes[j].name : j \in {i \in DOMAIN nodes : NodeIsReady(nodes[i])}}
    /\ ~AnyReady => ready = Names(nodes)

C4_ReadyOrFallback ==
    /\ poll_pc \in {"list_pod", "bind"} => Candidates(poll_ready)
    /\ watch_pc \in {"list_pod", "bind"} => Candidates(watch_ready)
    /\ (poll_pc = "bind" /\ AnyReady) => NodeIsReady(nodes[Pos(poll_pick.pick)])
    /\ (watch_pc = "bind" /\ AnyReady) => NodeIsReady(nodes[Pos(watch_pick.pick)])
    /\ nodes # <<>> => (poll_log.exc.cls # "RuntimeError" /\ watch_log.exc.cls # "RuntimeError")

\* A node that is not Ready has a smaller load than the node picked.
C4_Witness ==
    /\ watch_pc = "bind"
    /\ \E i \in DOMAIN nodes :
          /\ ~NodeIsReady(nodes[i])
          /\ Load(nodes[i].name) < Load(watch_pick.pick)

\* C5: the load count choose_node works with is the number of pods of the
\* listing assigned to the node, in any phase and for any scheduler, 0 for a
\* node without pods, whatever the order of the listing: the count printed
\* with the pick is that number, and no candidate has a smaller one.
CountIsLoad(ready, pick) ==
    /\ pick.min_cnt = Load(pick.pick)
    /\ \A c \in Range(ready) : Load(c) >= pick.min_cnt

C5_LoadCount ==
    /\ poll_pc = "bind" => CountIsLoad(poll_ready, poll_pick)
    /\ watch_pc = "bind" => CountIsLoad(watch_ready, watch_pick)

\* The node picked carries a pod that is neither Pending nor of this scheduler.
C5_Witness ==
    /\ poll_pc = "bind"
    /\ poll_pick.min_cnt = 2
    /\ \E p \in DOMAIN pods :
          /\ pods[p].node_name = poll_pick.pick
          /\ pods[p].phase = "Succeeded"
          /\ pods[p].scheduler_name # scheduler_name

\* The for loop of the polling cycle goes on to the next pod of the batch,
\* or, after the last one, the cycle ends in its sleep.
PollAdvances ==
    \/ /\ poll_i < Len(pending_pods)
       /\ poll_pc' = "list_node"
       /\ poll_i' = poll_i + 1
       /\ pending_pods' = pending_pods
    \/ /\ poll_i = Len(pending_pods)
       /\ poll_pc' = "sleep"
       /\ poll_sleep' = DefaultInterval

PollStep == poll_vars' # poll_vars

WatchStep == watch_vars' # watch_vars

\* The watch is still the same one: nothing of it is lost.
StreamKept == Len(stream') >= Len(stream) /\ SubSeq(stream', 1, Len(stream)) = stream

\* C6: with an empty node list choose_node fails before it lists the pods: the
\* attempt makes the one call, sends no bind and changes nothing in the
\* cluster, the loop goes on with the next pod of the batch, and every later
\* cycle takes up every pod that is still admitted.
C6_EmptyNodeList ==
    (poll_pc = "list_node" /\ nodes = <<>> /\ PollStep) =>
        /\ poll_calls' = <<"list_node">>
        /\ poll_log'.pod = pending_pods[poll_i].name
        /\ poll_log'.msg \in {"error", "api_error"}
        /\ poll_log'.exc.cls \in {"RuntimeError", "MaxRetryError", "ApiException"}
        /\ pods' = pods
        /\ binds' = binds
        /\ poll_binds' = poll_binds
        /\ PollAdvances

C6_NextCycle ==
    (poll_pc = "list" /\ all_pods' # <<>>) =>
        \A p \in DOMAIN pods : Admitted(pods[p]) => pods[p] \in Range(pending_pods')

C6_NoNodesOutcome ==
    poll_log.exc.cls = "RuntimeError" =>
        /\ poll_log.msg = "error"
        /\ poll_calls = <<"list_node">>
        /\ poll_pc \in {"list_node", "sleep"}

C6_NoNodes ==
    /\ [][C6_EmptyNodeList]_vars
    /\ [][C6_NextCycle]_vars
    /\ []C6_NoNodesOutcome

\* choose_node has failed for lack of nodes for the first pod of a batch and
\* the loop is at the next pod; the first pod is still unassigned.
C6_Witness ==
    /\ poll_log.exc.cls = "RuntimeError"
    /\ poll_pc = "list_node"
    /\ poll_i = 2
    /\ pods[poll_log.pod].node_name = None

\* C7: a bind answered 409 raises nothing past the per-pod try: the line
\* printed is the conflict line, nothing is committed, the loop goes on to the
\* next pod (the next event), and no pod is sent two bind requests in a cycle.
C7_PollConflict ==
    /\ (poll_pc = "bind" /\ PollStep /\ pods[pending_pods[poll_i].name].node_name \notin {None, ""}) =>
          /\ poll_log'.msg \in {"conflict", "api_error", "error"}
          /\ poll_log'.pod = pending_pods[poll_i].name
          /\ pods' = pods
          /\ PollAdvances
    /\ (poll_log' # poll_log /\ poll_log'.msg = "conflict") =>
          /\ poll_pc = "bind"
          /\ poll_log'.exc = Exc("ApiException", 409)
          /\ pods' = pods
          /\ PollAdvances

C7_WatchConflict ==
    /\ (watch_pc = "bind" /\ WatchStep /\ pods[watch_obj.name].node_name \notin {None, ""}) =>
          /\ watch_log'.msg \in {"conflict", "api_error", "error"}
          /\ watch_log'.pod = watch_obj.name
          /\ pods' = pods
          /\ watch_pc' = "next"
          /\ stream' = stream
    /\ (watch_log' # watch_log /\ watch_log'.msg = "conflict") =>
          /\ watch_pc = "bind"
          /\ watch_log'.exc = Exc("ApiException", 409)
          /\ pods' = pods
          /\ watch_pc' = "next"
          /\ stream' = stream

C7_OneRequest ==
    /\ \A p \in DOMAIN poll_binds : poll_binds[p] <= 1
    /\ Cardinality({i \in DOMAIN watch_calls : watch_calls[i] = "bind"}) <= 1

C7_Conflict ==
    /\ [][C7_PollConflict]_vars
    /\ [][C7_WatchConflict]_vars
    /\ []C7_OneRequest

\* The first pod of a batch was answered 409 and the loop is at the second.
C7_Witness ==
    /\ poll_log.msg = "conflict"
    /\ poll_log.exc.status = 409
    /\ poll_pc = "list_node"
    /\ poll_i = 2
    /\ poll_binds[poll_log.pod] = 1

\* C8: whatever fails while one pod is processed (a list call, the lack of
\* nodes, the bind), the polling loop goes on with the rest of the batch, and
\* the streaming loop keeps its watch and goes on with the next event.
C8_PollIsolated ==
    (PollPerPod /\ PollStep) =>
        /\ poll_log'.msg \notin {"main_loop_error", "traceback"}
        /\ \/ /\ poll_pc' \in {"list_pod", "bind"}
              /\ poll_i' = poll_i
              /\ pending_pods' = pending_pods
           \/ PollAdvances

C8_WatchIsolated ==
    (WatchPerPod /\ WatchStep) =>
        /\ watch_log'.msg \notin {"watch_stream_error", "traceback"}
        /\ watch_pc' \in {"list_pod", "bind", "next"}
        /\ StreamKept

C8_Isolation == [][C8_PollIsolated]_vars /\ [][C8_WatchIsolated]_vars

\* choose_node failed for lack of nodes on one event; the watch is open and
\* holds further events.
C8_Witness ==
    /\ watch_pc = "next"
    /\ watch_log.msg = "error"
    /\ watch_log.exc.cls = "RuntimeError"
    /\ stream # <<>>

\* C9: no error stops a loop.  A failed list call of the polling loop ends the
\* cycle without a bind request, the loop sleeps its interval and the sleep is
\* followed by the list call of a new cycle.
C9_Running ==
    /\ poll_pc \in {"list", "list_node", "list_pod", "bind", "sleep"}
    /\ watch_pc \in {"open", "next", "list_node", "list_pod", "bind", "sleep"}
    /\ poll_log.msg = "main_loop_error" =>
          /\ poll_pc = "sleep"
          /\ poll_sleep = DefaultInterval
          /\ \A p \in DOMAIN poll_binds : poll_binds[p] = 0

C9_ListFails ==
    /\ (poll_pc = "list" /\ PollStep) =>
          \/ poll_pc' = "list_node"
          \/ /\ poll_pc' = "sleep"
             /\ poll_sleep' = DefaultInterval
             /\ pods' = pods
             /\ poll_binds' = poll_binds
    /\ (poll_pc = "sleep" /\ PollStep) => poll_pc' = "list"
    /\ (watch_pc = "sleep" /\ WatchStep) => watch_pc' = "open"

C9_LoopNeverStops == []C9_Running /\ [][C9_ListFails]_vars

\* The list call failed with a transport error and the loop is in its sleep.
C9_Witness ==
    /\ poll_log.msg = "main_loop_error"
    /\ poll_log.exc.cls = "MaxRetryError"
    /\ poll_pc = "sleep"
    /\ poll_sleep = DefaultInterval

\* C10: whenever the watch ends, with or without an exception, the loop sleeps
\* RestartDelay before it opens the next one.
C10_DelayBeforeReopen ==
    [][(watch_pc = "next" /\ watch_pc' \notin {"next", "list_node"}) =>
          (watch_pc' = "sleep" /\ watch_sleep' = RestartDelay)]_vars

\* An event the streaming loop is to ignore: a DELETED event, and an event
\* whose object is no complete pod.
Ignorable(evt) == evt.type = "DELETED" \/ evt.shape # "pod"

\* C11: when the for statement takes a DELETED event or an event whose object
\* is None or lacks spec or status, the loop makes no call and changes nothing,
\* the watch stays open with its other events, and the loop is at the next
\* event.
C11_EventIgnored ==
    [][(WatchEvent /\ Ignorable(Head(stream))) =>
          /\ watch_pc' = "next"
          /\ stream' = Tail(stream)
          /\ watch_calls' = <<>>
          /\ watch_log'.msg # "watch_stream_error"
          /\ UNCHANGED <<nodes, pods, binds>>]_vars

\* C12: once a loop has seen a bind of a pod succeed or be answered with a
\* conflict, it sends no further bind request for that pod, in the polling
\* loop and in the streaming loop, whatever events the watch still holds.
C12_NoBindAfterTerminal ==
    [][/\ (poll_pc = "bind" /\ PollStep) =>
              poll_outcome[pending_pods[poll_i].name] # "terminal"
       /\ (watch_pc = "bind" /\ WatchStep) =>
              watch_outcome[watch_obj.name] # "terminal"]_vars

\* The last step of a loop was a bind of pod p that ended in a transient
\* error, and p is still unassigned, Pending and addressed to this scheduler.
PollTransient(p) ==
    /\ poll_log.pod = p
    /\ poll_log.msg \in {"api_error", "error"}
    /\ poll_calls # <<>>
    /\ poll_calls[Len(poll_calls)] = "bind"
    /\ BindOutcome(poll_log.msg, poll_log.exc) = "TransientError"
    /\ Admitted(pods[p])

WatchTransient(p) ==
    /\ watch_log.pod = p
    /\ watch_log.msg \in {"api_error", "error"}
    /\ watch_calls # <<>>
    /\ watch_calls[Len(watch_calls)] = "bind"
    /\ BindOutcome(watch_log.msg, watch_log.exc) = "TransientError"
    /\ Admitted(pods[p])

\* C13: a pod whose bind ended in a transient error and that stays admitted
\* is taken up again by the loop: by the polling loop in a later cycle, by the
\* streaming loop eventually, whether or not the watch carries a further event
\* for the pod.
C13_RetriedAfterTransient ==
    \A p \in 1..NumPods :
        /\ PollTransient(p) ~>
              ((PollPerPod /\ pending_pods[poll_i].name = p) \/ ~Admitted(pods[p]))
        /\ WatchTransient(p) ~>
              ((WatchPerPod /\ watch_obj.name = p) \/ ~Admitted(pods[p]))

\* C14: a pod whose bind was rejected with a permanent error (4xx other than
\* 409) and that is since unchanged (still unassigned, Pending, addressed to
\* this scheduler) is sent no further bind request by the loop.
C14_NoBindAfterPermanent ==
    [][/\ (poll_pc = "bind" /\ PollStep /\ Admitted(pods[pending_pods[poll_i].name])) =>
              poll_outcome[pending_pods[poll_i].name] # "permanent"
       /\ (watch_pc = "bind" /\ WatchStep /\ Admitted(pods[watch_obj.name])) =>
              watch_outcome[watch_obj.name] # "permanent"]_vars

\* C15: a loop that is sent the shutdown signal stops between iterations
\* (polling) or between events (streaming): it is never stopped while a pod is
\* being processed.
C15_StopsAfterCurrent ==
    [][/\ (poll_pc # "crashed" /\ poll_pc' = "crashed") => ~PollPerPod
       /\ (watch_pc # "crashed" /\ watch_pc' = "crashed") => ~WatchPerPod]_vars

\* C16: a loop prints 'Successfully bound' for a pod and a node only when the
\* cluster has accepted the binding: at that step the pod is assigned to that
\* node in the cluster, whichever exception the client call has raised.
C16_SuccessIsAssigned ==
    [][/\ (poll_pc = "bind" /\ PollStep /\ poll_log'.msg = "bound") =>
              pods'[pending_pods[poll_i].name].node_name = poll_pick.pick
       /\ (watch_pc = "bind" /\ WatchStep /\ watch_log'.msg = "bound") =>
              pods'[watch_obj.name].node_name = watch_pick.pick]_vars

\* The pods this cycle of the polling loop has bound.
BoundThisCycle == {p \in DOMAIN pods : poll_binds[p] = 1 /\ binds[p] = 1}

\* C17: in a cycle of the polling loop every selection counts over a listing
\* taken after the binds made earlier in the cycle: the count of the pick is
\* its load in the cluster and no candidate has a smaller load.  With the
\* nodes [node-a, node-b] both Ready and without pods, two pods bound in one
\* cycle go to node-a (the first) and node-b (the second).
C17_CountsAfterBind ==
    /\ poll_pc = "bind" =>
          /\ poll_pick.min_cnt = Load(poll_pick.pick)
          /\ \A c \in Range(poll_ready) : poll_pick.min_cnt <= Load(c)
    /\ \A p, q \in DOMAIN pods :
          (/\ Names(nodes) = <<"node-a", "node-b">>
           /\ \A i \in DOMAIN nodes : NodeIsReady(nodes[i])
           /\ p < q
           /\ BoundThisCycle = {p, q}
           /\ \A r \in DOMAIN pods : pods[r].node_name # None => r \in BoundThisCycle)
              => (pods[p].node_name = "node-a" /\ pods[q].node_name = "node-b")

\* Two pods were bound in one cycle on two Ready nodes that had no pods, and
\* the loop printed its success line for the second.
C17_Witness ==
    /\ Names(nodes) = <<"node-a", "node-b">>
    /\ \A i \in DOMAIN nodes : NodeIsReady(nodes[i])
    /\ BoundThisCycle = {1, 2}
    /\ pods[3].node_name = None
    /\ poll_log.msg = "bound"
    /\ poll_log.pod = 2
    /\ pods[2].node_name = "node-b"

\* The pods of the batch the for loop has finished with.
PollDone == {pending_pods[j].name : j \in 1..(poll_i - 1)}

C18_Requests ==
    /\ \A p \in DOMAIN poll_binds : poll_binds[p] <= 1
    /\ Cardinality({i \in DOMAIN poll_calls : poll_calls[i] = "bind"}) <= 1
    /\ PollPerPod =>
          /\ {p \in DOMAIN poll_binds : poll_binds[p] = 1} \subseteq PollDone
          /\ Cardinality({p \in DOMAIN poll_binds : poll_binds[p] = 1}) <= Len(pending_pods)
    /\ poll_pc = "list" =>
          /\ pending_pods = <<>>
          /\ poll_pick = NoPick
          /\ \A p \in DOMAIN poll_binds : poll_binds[p] = 0

C18_RequestStep ==
    (poll_pc = "bind" /\ PollStep) =>
        /\ poll_binds[pending_pods[poll_i].name] = 0
        /\ poll_binds' = [poll_binds EXCEPT ![pending_pods[poll_i].name] = 1]
        /\ poll_log'.msg \in {"bound", "conflict", "api_error", "error"}
        /\ PollAdvances

\* C18: processing one pod of the batch sends one bind request, whatever the
\* answer: after the request the for loop advances; within a cycle the pods
\* that were sent a request are pods of the batch the loop has finished with,
\* each sent one request; and a cycle starts without a batch, a pick or a
\* count of requests from the cycle before.
C18_OneRequestPerPod == []C18_Requests /\ [][C18_RequestStep]_vars

\* A bind of the first pod of a batch was answered with an API error other
\* than a conflict and the loop is at the second pod.
C18_Witness ==
    /\ poll_pc = "list_node"
    /\ poll_i = 2
    /\ poll_log.msg = "api_error"
    /\ poll_log.exc.status = 503
    /\ poll_binds[poll_log.pod] = 1
    /\ poll_calls[Len(poll_calls)] = "bind"

\* C19: in a cluster that always has a node and answers each kind of request
\* again and again, every pod that is unassigned, Pending and addressed to
\* this scheduler is assigned to a node in the end.
C19_EveryPodAssigned ==
    \A p \in 1..NumPods : Admitted(pods[p]) ~> (pods[p].node_name \notin {None, ""})

\* The second pod of a batch was bound in a cycle in which the first was not:
\* the first is still unassigned.
C19_Witness ==
    /\ poll_log.msg = "bound"
    /\ poll_log.pod = 2
    /\ poll_pc = "sleep"
    /\ Admitted(pods[1])

\* The names of the Ready nodes, the largest difference between the values
\* of f on two of them, and the load a node had at the start (the pods on it
\* that no bind of the run has put there).
ReadyNames == {nodes[i].name : i \in {j \in DOMAIN nodes : NodeIsReady(nodes[j])}}

Spread(f) ==
    IF ReadyNames = {} THEN 0
    ELSE LET hi == CHOOSE n \in ReadyNames : \A m \in ReadyNames : f[m] <= f[n]
             lo == CHOOSE n \in ReadyNames : \A m \in ReadyNames : f[m] >= f[n]
         IN  f[hi] - f[lo]

Loads == [n \in ReadyNames |-> Load(n)]

InitialLoads ==
    [n \in ReadyNames |-> Cardinality({p \in DOMAIN pods : pods[p].node_name = n /\ binds[p] = 0})]

\* C20: with this scheduler as the only actor and a fixed node list, the
\* difference between the largest and the smallest load of the Ready nodes is
\* never larger than the larger of 1 and what it was at the start, and no bind
\* makes it larger than the larger of 1 and what it was before; from equal
\* loads, two Ready nodes never differ by more than 1.
C20_SpreadBounded ==
    /\ Spread(Loads) <= IF Spread(InitialLoads) > 1 THEN Spread(InitialLoads) ELSE 1
    /\ Spread(InitialLoads) = 0 => \A n, m \in ReadyNames : Load(n) - Load(m) <= 1

\* Three pods were bound on two Ready nodes that carried the same load.
C20_Witness ==
    /\ Cardinality(ReadyNames) = 2
    /\ Spread(InitialLoads) = 0
    /\ \A p \in DOMAIN pods : binds[p] = 1
    /\ Spread(Loads) = 1

====
